---------------------------- MODULE Spec2Model ----------------------------
(***************************************************************************)
(* A model of the batch XSLT transformer.                                  *)
(*                                                                         *)
(*   XSLTTransform.py              the sibling-output variant with the     *)
(*                                 STATUS guard, xmllint formatting,       *)
(*                                 schema validation and the two reports   *)
(*   xsltTransformerandScraper.py  the nested-output variant (names        *)
(*                                 prefixed Scraper_ here)                 *)
(*                                                                         *)
(* File names are sequences of one-character strings, so that the stem,    *)
(* the digit removal, strip(), upper() and the substring test are computed *)
(* as Python computes them.  A path is a record [dir, name]: dir is the    *)
(* sequence of directory segments below the parent of root_dir.            *)
(***************************************************************************)
EXTENDS Naturals, Sequences, FiniteSets

VARIABLES
    pc,                 \* position of the script: see the actions
    xml_filename,       \* find_matching_xslt's first argument (SpecMatch)
    matching_xslt,      \* find_matching_xslt's result (SpecMatch)
    xslt_files,         \* the list load_xslt_files returned
    schema_path,        \* None or the schema's path
    fs,                 \* the file system: path -> contents
    stack,              \* os.walk: directories still to scan
    files,              \* the files of the current directory still to visit
    current_path,       \* the directory os.walk yielded last
    validation_errors,  \* global dict, as a sequence of [key, msg] in insertion order
    unmatched_files,    \* global list
    error_log,          \* what logging.error wrote to LOG_FILE
    steps,              \* history: every external step attempted, in order
    exception,          \* the exception that ended the script, or None
    validation_report,  \* validation_report.txt: NoFile or its lines
    unmatched_report,   \* unmatched_files_report.txt: NoFile or its lines
    run,                \* how many times the script was started (nested variant)
    first_run_outputs,  \* the files under the output folder when run 1 ended
    engine              \* the transform engine's verdict per input, once given

vars == <<pc, xml_filename, matching_xslt, xslt_files, schema_path, fs, stack,
          files, current_path, validation_errors, unmatched_files, error_log,
          steps, exception, validation_report, unmatched_report, run,
          first_run_outputs, engine>>

\* ------------------------------------------------------------------ bounds

\* The longest stylesheet list find_matching_xslt is applied to in SpecMatch.
MaxXslt == 2

\* The most files the input tree holds when a run starts.
MaxTree == 2

\* ----------------------------------------------------------------- strings

None == <<"None">>

Range(s) == {s[i] : i \in 1..Len(s)}

LowerLetters == <<"a","b","c","d","e","f","g","h","i","j","k","l","m",
                  "n","o","p","q","r","s","t","u","v","w","x","y","z">>

UpperLetters == <<"A","B","C","D","E","F","G","H","I","J","K","L","M",
                  "N","O","P","Q","R","S","T","U","V","W","X","Y","Z">>

Digits == {"0","1","2","3","4","5","6","7","8","9"}

Whitespace == {" ", "\t", "\n"}

\* the characters file names and messages are written in
Alphabet ==
    Range(LowerLetters) \cup Range(UpperLetters) \cup Digits \cup Whitespace
    \cup {".", "_", "-"}

\* str.upper(), character by character
UpperChar ==
    [c \in Alphabet |->
        IF \E i \in 1..26 : LowerLetters[i] = c
        THEN UpperLetters[CHOOSE i \in 1..26 : LowerLetters[i] = c]
        ELSE c]

\* str.lower(), character by character
LowerChar ==
    [c \in Alphabet |->
        IF \E i \in 1..26 : UpperLetters[i] = c
        THEN LowerLetters[CHOOSE i \in 1..26 : UpperLetters[i] = c]
        ELSE c]

Upper(s) == [i \in 1..Len(s) |-> UpperChar[s[i]]]

Lower(s) == [i \in 1..Len(s) |-> LowerChar[s[i]]]

\* re.sub(r'\d+', '', s)
RemoveDigits(s) == SelectSeq(s, LAMBDA c : c \notin Digits)

\* str.strip()
Strip(s) ==
    LET keep == {i \in 1..Len(s) : s[i] \notin Whitespace}
    IN  IF keep = {} THEN <<>>
        ELSE LET lo == CHOOSE i \in keep : \A j \in keep : i <= j
                 hi == CHOOSE i \in keep : \A j \in keep : j <= i
             IN  SubSeq(s, lo, hi)

\* the Python test "sub in s"
Contains(sub, s) ==
    \E i \in 0..(Len(s) - Len(sub)) : SubSeq(s, i + 1, i + Len(sub)) = sub

\* str.endswith
EndsWith(s, suffix) ==
    /\ Len(suffix) <= Len(s)
    /\ SubSeq(s, Len(s) - Len(suffix) + 1, Len(s)) = suffix

\* str.rfind('.'): the last dot's 0-based index, Len(s) standing for -1
RFindDot(s) ==
    LET dots == {i \in 1..Len(s) : s[i] = "."}
    IN  IF dots = {} THEN Len(s)
        ELSE (CHOOSE i \in dots : \A j \in dots : j <= i) - 1

\* pathlib's PurePath.stem of a bare file name: the name up to its last dot,
\* unless that dot is the first or the last character
Stem(name) ==
    LET i == RFindDot(name)
    IN  IF 0 < i /\ i < Len(name) - 1 THEN SubSeq(name, 1, i) ELSE name

STATUS == <<"S","T","A","T","U","S">>

DotXml == <<".","x","m","l">>

DotXsl == <<".","x","s","l">>

DotXslt == <<".","x","s","l","t">>

\* ------------------------------------------------------------ file names

Invoice123_xml == <<"I","n","v","o","i","c","e","1","2","3",".","x","m","l">>

invoice_xml == <<"i","n","v","o","i","c","e",".","x","m","l">>

Message_xml == <<"M","e","s","s","a","g","e",".","x","m","l">>

MessageStatus_xml == <<"M","e","s","s","a","g","e","S","t","a","t","u","s",".","x","m","l">>

Status1_XML == <<"S","t","a","t","u","s","1",".","X","M","L">>

status_9_xml == <<" ","s","t","a","t","u","s"," ","9",".","x","m","l">>

temp_xml == <<"t","e","m","p",".","x","m","l">>

Unknown_xml == <<"U","n","k","n","o","w","n",".","x","m","l">>

digits_xml == <<"4","2",".","x","m","l">>

notes_txt == <<"n","o","t","e","s",".","t","x","t">>

INVOICE_xslt == <<"I","N","V","O","I","C","E",".","x","s","l","t">>

MessageStatus_xslt == <<"M","e","s","s","a","g","e","S","t","a","t","u","s",".","x","s","l","t">>

Message_xsl == <<"M","e","s","s","a","g","e",".","x","s","l">>

Status_xsl == <<"S","t","a","t","u","s",".","x","s","l">>

temp_xslt == <<"t","e","m","p",".","x","s","l","t">>

readme_txt == <<"r","e","a","d","m","e",".","t","x","t">>

\* the XML file names find_matching_xslt is tried on
XmlNames ==
    {Invoice123_xml, invoice_xml, Message_xml, MessageStatus_xml, Status1_XML,
     status_9_xml, temp_xml, Unknown_xml, digits_xml}

\* the stylesheet names a stylesheet directory may hold
XsltNames == {INVOICE_xslt, MessageStatus_xslt, Message_xsl, Status_xsl, temp_xslt}

\* the sequences without repetition of at most n elements of S
ListsOf(S, n) ==
    {l \in UNION {[1..k -> S] : k \in 0..n} :
        \A i, j \in 1..Len(l) : i # j => l[i] # l[j]}

\* ----------------------------------------------- XSLTTransform.py: matcher

\* the loop of find_matching_xslt from position i of the list on
RECURSIVE MatchFrom(_, _, _)
MatchFrom(prefix_clean, list, i) ==
    IF i > Len(list) THEN None
    ELSE LET xslt == list[i]
             xslt_upper == Upper(Strip(xslt))
             statusExist == Contains(STATUS, Upper(prefix_clean))
                              /\ Contains(STATUS, xslt_upper)
         IN  IF Contains(prefix_clean, xslt_upper) /\ statusExist
             THEN xslt
             ELSE MatchFrom(prefix_clean, list, i + 1)

\* find_matching_xslt without its STATUS guard
find_matching_xslt_unguarded(name, list) ==
    LET prefix_clean == Upper(Strip(RemoveDigits(Stem(name))))
        hits == {i \in 1..Len(list) : Contains(prefix_clean, Upper(Strip(list[i])))}
    IN  IF hits = {} THEN None
        ELSE list[CHOOSE i \in hits : \A j \in hits : i <= j]

find_matching_xslt(name, list) ==
    LET base_name == Stem(name)
        prefix_clean == Upper(Strip(RemoveDigits(base_name)))
    IN  MatchFrom(prefix_clean, list, 1)

\* ------------------------------------------------- paths and file system

\* root_dir, as its segments below its own parent directory
RootDir == <<"RootDir">>

modified_folder_name == "Modified"

SchemaPath == <<"Message.xsd">>

NoException == "None"

NoFile == <<"no such file">>

Path(dir, name) == [dir |-> dir, name |-> name]

InputFile(p) == [kind |-> "input", src |-> p, formatted |-> FALSE]

IsPrefix(d, e) == Len(d) <= Len(e) /\ SubSeq(e, 1, Len(d)) = d

\* the file system f with file p holding c
WriteFile(f, p, c) == [q \in DOMAIN f \cup {p} |-> IF q = p THEN c ELSE f[q]]

\* the file system f without file p
RemoveFile(f, p) == [q \in DOMAIN f \ {p} |-> f[q]]

\* os.scandir(top): the names of top's subdirectories (those holding a file)
Subdirs(f, top) ==
    {SubSeq(p.dir, 1, Len(top) + 1) :
        p \in {q \in DOMAIN f : IsPrefix(top, q.dir) /\ Len(q.dir) > Len(top)}}

\* os.scandir(top): the names of top's files
Nondirs(f, top) == {p.name : p \in {q \in DOMAIN f : q.dir = top}}

\* the orders in which a directory listing may enumerate S
Orders(S) ==
    {l \in [1..Cardinality(S) -> S] : \A i, j \in 1..Len(l) : i # j => l[i] # l[j]}

\* Path.relative_to(root_dir), on directories
RelativeTo(dir, root) == SubSeq(dir, Len(root) + 1, Len(dir))

\* Path.parent, on directories
Parent(dir) == SubSeq(dir, 1, Len(dir) - 1)

\* ------------------------------------------ what the external tools may do

\* subprocess.run(check=True, timeout=30) of the transform engine: exit 0,
\* CalledProcessError, TimeoutExpired, or OSError when java cannot be started
TransformOutcomes == {"ok", "nonzero", "timeout", "oserror"}

\* the two subprocess.run(check=True) calls of format_with_xmllint
FormatOutcomes == {"ok", "xmllint_nonzero", "xmllint_oserror", "mv_nonzero", "mv_oserror"}

\* Path.mkdir(parents=True, exist_ok=True)
MkdirOutcomes == {"ok", "oserror"}

\* what the validator's pipes may hold
PipeTexts == {<<>>, <<"\n">>, <<"msg">>}

\* subprocess.run(check=False) of the validator, and what follows in the try
\* block: a completed process, or an exception with the text str(e) gives
ValidateOutcomes ==
    [kind : {"completed"}, returncode : {0, 1}, stdout : PipeTexts, stderr : {<<>>, <<"err">>}]
    \cup {[kind |-> "raised", type |-> "FileNotFoundError",
           str |-> <<"[Errno 2] No such file or directory: 'xmllint'">>],
          [kind |-> "raised", type |-> "UnicodeDecodeError",
           str |-> <<"'utf-8' codec can't decode byte 0xff in position 0">>]}

UnknownError == <<"Validation failed with unknown error.">>

\* Python's "a or b" on strings
Or(a, b) == IF a # <<>> THEN a ELSE b

\* d[key] = value on a dict kept as a sequence in insertion order
DictSet(d, key, value) ==
    IF \E i \in 1..Len(d) : d[i].key = key
    THEN [i \in 1..Len(d) |-> IF d[i].key = key THEN [key |-> key, value |-> value] ELSE d[i]]
    ELSE Append(d, [key |-> key, value |-> value])

\* ------------------------------------- XSLTTransform.py: the per-file steps
\* The steps work on a record s of the fields they change:
\*   fs, validation_errors, error_log, steps, exception.

load_xslt_files(listing) ==
    SelectSeq(listing, LAMBDA f : EndsWith(f, DotXsl) \/ EndsWith(f, DotXslt))

Step(s, step, input, outcome) ==
    [s EXCEPT !.steps = Append(@, [step |-> step, file |-> input, outcome |-> outcome])]

Raise(s, type) == [s EXCEPT !.exception = type]

LogError(s, what, path) ==
    [s EXCEPT !.error_log = Append(@, [what |-> what, path |-> path])]

\* format_with_xmllint(file_path); input names the file being processed
format_with_xmllint(s, input, file_path, fmt) ==
    LET temp_path == Path(file_path.dir, temp_xml)
        s1 == Step(s, "format", input, fmt)
        formatted == [s1 EXCEPT !.fs = WriteFile(@, temp_path,
                                          [s.fs[file_path] EXCEPT !.formatted = TRUE])]
        moved == [formatted EXCEPT !.fs = RemoveFile(
                                     WriteFile(@, file_path, formatted.fs[temp_path]),
                                     temp_path)]
    IN  IF fmt = "xmllint_oserror" THEN Raise(s1, "FileNotFoundError")
        ELSE IF fmt = "xmllint_nonzero"
        THEN LogError(s1, "xmllint formatting failed", file_path)
        ELSE IF fmt = "mv_oserror" THEN Raise(formatted, "FileNotFoundError")
        \* mv refuses to move a file onto itself
        ELSE IF fmt = "mv_nonzero" \/ temp_path = file_path
        THEN LogError(formatted, "xmllint formatting failed", file_path)
        ELSE moved

\* validate_xml_schema recording the validator's stderr alone
validate_xml_schema_stderr_only(s, input, file_path, val) ==
    LET s1 == Step(s, "validate", input,
                   IF val.kind = "raised" THEN "raised"
                   ELSE IF val.returncode = 0 THEN "valid" ELSE "invalid")
    IN  IF val.kind = "completed"
        THEN IF val.returncode = 0 THEN s1
             ELSE [s1 EXCEPT !.validation_errors = DictSet(@, file_path, Strip(val.stderr))]
        ELSE [s1 EXCEPT !.validation_errors = DictSet(@, file_path, val.str)]

\* validate_xml_schema(file_path, schema_path)
validate_xml_schema(s, input, file_path, val) ==
    LET s1 == Step(s, "validate", input,
                   IF val.kind = "raised" THEN "raised"
                   ELSE IF val.returncode = 0 THEN "valid" ELSE "invalid")
    IN  IF val.kind = "completed"
        THEN LET stdout == Strip(val.stdout)
                 stderr == Strip(val.stderr)
                 error_msg == Or(stderr, Or(stdout, UnknownError))
             IN  IF val.returncode = 0 THEN s1
                 ELSE [s1 EXCEPT !.validation_errors = DictSet(@, file_path, error_msg)]
        ELSE [s1 EXCEPT !.validation_errors = DictSet(@, file_path, val.str)]

\* process_file validating the output before it is formatted
process_file_validates_first(s, input_file_path, output_file_path, schema, tr, fmt, val) ==
    LET s1 == Step(s, "transform", input_file_path, tr)
        transformed == [s1 EXCEPT !.fs = WriteFile(@, output_file_path,
                            [kind |-> "output", src |-> input_file_path, formatted |-> FALSE])]
        validated == IF schema # None
                     THEN validate_xml_schema(transformed, input_file_path, output_file_path, val)
                     ELSE transformed
        formatted == format_with_xmllint(validated, input_file_path, output_file_path, fmt)
    IN  IF tr = "nonzero"
        THEN [s |-> LogError(s1, "transform failed", input_file_path), ret |-> "False"]
        ELSE IF tr = "timeout" THEN [s |-> Raise(s1, "TimeoutExpired"), ret |-> "raised"]
        ELSE IF tr = "oserror" THEN [s |-> Raise(s1, "FileNotFoundError"), ret |-> "raised"]
        ELSE IF formatted.exception # NoException THEN [s |-> formatted, ret |-> "raised"]
        ELSE [s |-> formatted, ret |-> "True"]

\* process_file: the state it leaves and what it returns
process_file(s, input_file_path, output_file_path, schema, tr, fmt, val) ==
    LET s1 == Step(s, "transform", input_file_path, tr)
        transformed == [s1 EXCEPT !.fs = WriteFile(@, output_file_path,
                            [kind |-> "output", src |-> input_file_path, formatted |-> FALSE])]
        formatted == format_with_xmllint(transformed, input_file_path, output_file_path, fmt)
        validated == IF schema # None
                     THEN validate_xml_schema(formatted, input_file_path, output_file_path, val)
                     ELSE formatted
    IN  IF tr = "nonzero"
        THEN [s |-> LogError(s1, "transform failed", input_file_path), ret |-> "False"]
        ELSE IF tr = "timeout" THEN [s |-> Raise(s1, "TimeoutExpired"), ret |-> "raised"]
        ELSE IF tr = "oserror" THEN [s |-> Raise(s1, "FileNotFoundError"), ret |-> "raised"]
        ELSE IF formatted.exception # NoException THEN [s |-> formatted, ret |-> "raised"]
        ELSE [s |-> validated, ret |-> "True"]

\* ensure_output_path: the path it computes (it creates the parent directories
\* first; a chmod failure is caught and only printed)
ensure_output_path(input_file_path, root_dir, folder_name) ==
    LET relative_path == RelativeTo(input_file_path.dir, root_dir)
        modified_base == Append(Parent(root_dir), folder_name)
    IN  Path(modified_base \o relative_path, input_file_path.name)

\* the unmatched branch logging the file and not recording it
no_matching_xslt_unrecorded(s, unmatched, input_file_path) ==
    [s |-> LogError(s, "No matching XSLT", input_file_path), unmatched |-> unmatched]

\* the branch of the inner loop taken when find_matching_xslt found nothing
no_matching_xslt(s, unmatched, input_file_path) ==
    [s |-> LogError(s, "No matching XSLT", input_file_path),
     unmatched |-> Append(unmatched, input_file_path)]

\* the body of traverse_and_process's inner loop for one file, from the result
\* of its call of find_matching_xslt on
visit_file(s, unmatched, dir, file, matching, schema, mk, tr, fmt, val) ==
    LET input_file_path == Path(dir, file)
        output_file_path == ensure_output_path(input_file_path, RootDir, modified_folder_name)
        s1 == Step(s, "mkdir", input_file_path, mk)
    IN  IF ~EndsWith(Lower(file), DotXml) THEN [s |-> s, unmatched |-> unmatched]
        ELSE IF matching = None THEN no_matching_xslt(s, unmatched, input_file_path)
        ELSE IF mk = "oserror"
        THEN [s |-> Raise(s1, "PermissionError"), unmatched |-> unmatched]
        ELSE [s |-> process_file(s1, input_file_path, output_file_path, schema,
                                 tr, fmt, val).s,
              unmatched |-> unmatched]

\* write_validation_report_to_txt opening the report to append
write_validation_report_appending(errors, report) ==
    IF errors = <<>> THEN report
    ELSE (IF report = NoFile THEN <<>> ELSE report)
         \o <<[line |-> "title"], [line |-> "separator"], [line |-> "header"],
              [line |-> "separator"]>>
         \o [i \in 1..Len(errors) |->
                [line |-> "row", filepath |-> errors[i].key, error |-> errors[i].value]]
         \o <<[line |-> "separator"]>>

\* write_validation_report_to_txt: the report file it leaves.  A line is a
\* record; the column widths of the table are not modelled.
write_validation_report_to_txt(errors, report) ==
    IF errors = <<>> THEN report
    ELSE <<[line |-> "title"], [line |-> "separator"], [line |-> "header"],
           [line |-> "separator"]>>
         \o [i \in 1..Len(errors) |->
                [line |-> "row", filepath |-> errors[i].key, error |-> errors[i].value]]
         \o <<[line |-> "separator"]>>

\* write_unmatched_files_report: the report file it leaves
write_unmatched_files_report(unmatched, report) ==
    IF unmatched = <<>> THEN report
    ELSE <<[line |-> "title"], [line |-> "blank"]>>
         \o [i \in 1..Len(unmatched) |-> [line |-> "row", filepath |-> unmatched[i]]]

\* ------------------------------------------------------------ the inputs

\* the files an input tree may hold: matched and unmatched ones side by side,
\* one that is no XML file, a subdirectory, and a directory named as the
\* output folder
TreeFiles ==
    {Path(RootDir, MessageStatus_xml), Path(RootDir, Status1_XML),
     Path(RootDir, temp_xml), Path(RootDir, notes_txt),
     Path(Append(RootDir, "A"), Status1_XML), Path(Append(RootDir, "A"), Unknown_xml),
     Path(Append(RootDir, modified_folder_name), Status1_XML)}

\* the input trees: at most MaxTree files
Trees == {T \in SUBSET TreeFiles : Cardinality(T) <= MaxTree}

\* what os.listdir(xslt_dir) may return
XsltDirListings ==
    {<<readme_txt, MessageStatus_xslt, Status_xsl, temp_xslt>>,
     <<INVOICE_xslt, temp_xslt, Status_xsl>>}

\* a report file left by an earlier run
OldReport == <<[line |-> "title"], [line |-> "old"]>>

\* What the external tools do for one file, one record per distinguishable
\* course of events: a step that is not reached has no outcome of its own.
NoOutcome ==
    [mk |-> "ok", tr |-> "ok", fmt |-> "ok",
     val |-> [kind |-> "completed", returncode |-> 0, stdout |-> <<>>, stderr |-> <<>>]]

OutcomesUnvalidated ==
    {o \in [mk : MkdirOutcomes, tr : TransformOutcomes, fmt : FormatOutcomes,
            val : {NoOutcome.val}] :
        /\ o.mk # "ok" => o.tr = "ok"
        /\ (o.mk # "ok" \/ o.tr # "ok") => o.fmt = "ok"}

OutcomesValidated ==
    {o \in [mk : MkdirOutcomes, tr : TransformOutcomes, fmt : FormatOutcomes,
            val : ValidateOutcomes] :
        /\ o.mk # "ok" => o.tr = "ok"
        /\ (o.mk # "ok" \/ o.tr # "ok") => o.fmt = "ok"
        /\ (o.mk # "ok" \/ o.tr # "ok" \/ o.fmt \in {"xmllint_oserror", "mv_oserror"})
              => o.val = NoOutcome.val}

\* whether the loop body reaches ensure_output_path for this file
Transforms(file, matching) == EndsWith(Lower(file), DotXml) /\ matching # None

\* ------------------------------------------------- XSLTTransform.py: a run

Init ==
    /\ pc = "walk"
    /\ xml_filename = None
    /\ matching_xslt = None
    /\ xslt_files \in {load_xslt_files(l) : l \in XsltDirListings}
    /\ schema_path \in {None, SchemaPath}
    /\ \E T \in Trees : fs = [p \in T |-> InputFile(p)]
    /\ stack = <<RootDir>>
    /\ files = {}
    /\ current_path = <<>>
    /\ validation_errors = <<>>
    /\ unmatched_files = <<>>
    /\ error_log = <<>>
    /\ steps = <<>>
    /\ exception = NoException
    /\ validation_report \in {NoFile, OldReport}
    /\ unmatched_report = NoFile
    /\ run = 1
    /\ first_run_outputs = {}
    /\ engine = <<>>

\* os.walk yields the next directory; the loop skips it when a segment of its
\* path is the output folder's name
WalkNextDir ==
    /\ pc = "walk"
    /\ files = {}
    /\ stack # <<>>
    /\ LET top == Head(stack)
       IN  /\ \E dirs \in Orders(Subdirs(fs, top)) : stack' = dirs \o Tail(stack)
           /\ current_path' = top
           /\ files' = IF modified_folder_name \in Range(top) THEN {} ELSE Nondirs(fs, top)
    /\ UNCHANGED <<pc, xml_filename, matching_xslt, xslt_files, schema_path, fs,
                   validation_errors, unmatched_files, error_log, steps, exception,
                   validation_report, unmatched_report, run, first_run_outputs, engine>>

\* one iteration of the inner loop: the next file of the current directory
VisitFile ==
    /\ pc = "walk"
    /\ \E file \in files :
        LET matching == find_matching_xslt(file, xslt_files)
        IN
        \E o \in IF Transforms(file, matching)
                 THEN (IF schema_path # None THEN OutcomesValidated ELSE OutcomesUnvalidated)
                 ELSE {NoOutcome} :
          \E r \in {visit_file([fs |-> fs, validation_errors |-> validation_errors,
                                error_log |-> error_log, steps |-> steps,
                                exception |-> exception],
                               unmatched_files, current_path, file, matching,
                               schema_path, o.mk, o.tr, o.fmt, o.val)} :
              /\ files' = files \ {file}
              /\ fs' = r.s.fs
              /\ validation_errors' = r.s.validation_errors
              /\ error_log' = r.s.error_log
              /\ steps' = r.s.steps
              /\ exception' = r.s.exception
              /\ unmatched_files' = r.unmatched
              /\ pc' = IF r.s.exception # NoException THEN "crashed" ELSE "walk"
    /\ UNCHANGED <<xml_filename, matching_xslt, xslt_files, schema_path, stack,
                   current_path, validation_report, unmatched_report, run,
                   first_run_outputs, engine>>

\* os.walk is exhausted: traverse_and_process returns
TraverseReturn ==
    /\ pc = "walk"
    /\ files = {}
    /\ stack = <<>>
    /\ pc' = "write_validation_report"
    /\ UNCHANGED <<xml_filename, matching_xslt, xslt_files, schema_path, fs, stack, files,
                   current_path, validation_errors, unmatched_files, error_log, steps,
                   exception, validation_report, unmatched_report, run,
                   first_run_outputs, engine>>

WriteValidationReport ==
    /\ pc = "write_validation_report"
    /\ validation_report' = write_validation_report_to_txt(validation_errors, validation_report)
    /\ pc' = "write_unmatched_report"
    /\ UNCHANGED <<xml_filename, matching_xslt, xslt_files, schema_path, fs, stack, files,
                   current_path, validation_errors, unmatched_files, error_log, steps,
                   exception, unmatched_report, run, first_run_outputs, engine>>

WriteUnmatchedReport ==
    /\ pc = "write_unmatched_report"
    /\ unmatched_report' = write_unmatched_files_report(unmatched_files, unmatched_report)
    /\ pc' = "done"
    /\ UNCHANGED <<xml_filename, matching_xslt, xslt_files, schema_path, fs, stack, files,
                   current_path, validation_errors, unmatched_files, error_log, steps,
                   exception, validation_report, run, first_run_outputs, engine>>

Next ==
    \/ WalkNextDir
    \/ VisitFile
    \/ TraverseReturn
    \/ WriteValidationReport
    \/ WriteUnmatchedReport

Spec == Init /\ [][Next]_vars

\* ------------------------------------- find_matching_xslt on its own inputs

InitMatch ==
    /\ pc = "call"
    /\ xml_filename \in XmlNames
    /\ matching_xslt = None
    /\ xslt_files \in ListsOf(XsltNames, MaxXslt)
    /\ schema_path = None
    /\ fs = <<>>
    /\ stack = <<>>
    /\ files = {}
    /\ current_path = <<>>
    /\ validation_errors = <<>>
    /\ unmatched_files = <<>>
    /\ error_log = <<>>
    /\ steps = <<>>
    /\ exception = NoException
    /\ validation_report = NoFile
    /\ unmatched_report = NoFile
    /\ run = 1
    /\ first_run_outputs = {}
    /\ engine = <<>>

Match ==
    /\ pc = "call"
    /\ matching_xslt' = find_matching_xslt(xml_filename, xslt_files)
    /\ pc' = "return"
    /\ UNCHANGED <<xml_filename, xslt_files, schema_path, fs, stack, files, current_path,
                   validation_errors, unmatched_files, error_log, steps, exception,
                   validation_report, unmatched_report, run, first_run_outputs, engine>>

NextMatch == Match

SpecMatch == InitMatch /\ [][NextMatch]_vars

\* --------------------- xsltTransformerandScraper.py: the nested-output variant

\* the loop of this variant's find_matching_xslt from position i on: no guard
RECURSIVE Scraper_MatchFrom(_, _, _)
Scraper_MatchFrom(prefix_clean, list, i) ==
    IF i > Len(list) THEN None
    ELSE LET xslt == list[i]
             xslt_upper == Upper(Strip(xslt))
         IN  IF Contains(prefix_clean, xslt_upper)
             THEN xslt
             ELSE Scraper_MatchFrom(prefix_clean, list, i + 1)

Scraper_find_matching_xslt(name, list) ==
    LET base_name == Stem(name)
        prefix_clean == Upper(Strip(RemoveDigits(base_name)))
    IN  Scraper_MatchFrom(prefix_clean, list, 1)

\* minidom's parse and rewrite of the file in place, or any exception of it
PrettyPrintOutcomes == {"ok", "error"}

\* pretty_print_xml(file_path): every exception is caught and logged
Scraper_pretty_print_xml(s, input, file_path, pp) ==
    LET s1 == Step(s, "format", input, pp)
    IN  IF pp = "ok"
        THEN [s1 EXCEPT !.fs = WriteFile(@, file_path,
                                         [s.fs[file_path] EXCEPT !.formatted = TRUE])]
        ELSE LogError(s1, "Failed to pretty-print", file_path)

Scraper_process_file(s, input_file_path, output_file_path, tr, pp) ==
    LET s1 == Step(s, "transform", input_file_path, tr)
        transformed == [s1 EXCEPT !.fs = WriteFile(@, output_file_path,
                            [kind |-> "output", src |-> input_file_path, formatted |-> FALSE])]
    IN  IF tr = "nonzero"
        THEN [s |-> LogError(s1, "transform failed", input_file_path), ret |-> "False"]
        ELSE IF tr = "timeout" THEN [s |-> Raise(s1, "TimeoutExpired"), ret |-> "raised"]
        ELSE IF tr = "oserror" THEN [s |-> Raise(s1, "FileNotFoundError"), ret |-> "raised"]
        ELSE [s |-> Scraper_pretty_print_xml(transformed, input_file_path,
                                             output_file_path, pp),
              ret |-> "True"]

\* this variant's ensure_output_path: the output folder lies inside root_dir
Scraper_ensure_output_path(input_file_path, root_dir, folder_name) ==
    LET relative_path == RelativeTo(input_file_path.dir, root_dir)
    IN  Path(Append(root_dir, folder_name) \o relative_path, input_file_path.name)

\* the skip test looking at the directory's own name only
Scraper_skips_own_name(current, folder_name) ==
    current # <<>> /\ current[Len(current)] = folder_name

\* the test that makes the loop skip a directory
Scraper_skips(current, folder_name) == folder_name \in Range(current)

\* the body of the inner loop for one file, from the result of its call of
\* find_matching_xslt on
Scraper_visit_file(s, dir, file, matching, mk, tr, pp) ==
    LET input_file_path == Path(dir, file)
        output_file_path ==
            Scraper_ensure_output_path(input_file_path, RootDir, modified_folder_name)
        s0 == Step(s, "match", input_file_path, IF matching = None THEN "none" ELSE "found")
        s1 == Step(s0, "mkdir", input_file_path, mk)
    IN  IF ~EndsWith(Lower(file), DotXml) THEN s
        ELSE IF matching = None THEN LogError(s0, "No matching XSLT", input_file_path)
        ELSE IF mk = "oserror" THEN Raise(s1, "PermissionError")
        ELSE Scraper_process_file(s1, input_file_path, output_file_path, tr, pp).s

\* the files a tree may hold when this variant starts, some of them below a
\* directory named as the output folder
ScraperTreeFiles ==
    {Path(RootDir, Invoice123_xml), Path(RootDir, Unknown_xml),
     Path(RootDir, notes_txt), Path(Append(RootDir, "A"), invoice_xml),
     Path(Append(RootDir, modified_folder_name), invoice_xml),
     Path(RootDir \o <<"A", modified_folder_name>>, invoice_xml),
     Path(RootDir \o <<modified_folder_name, "A">>, Invoice123_xml)}

ScraperTrees == {T \in SUBSET ScraperTreeFiles : Cardinality(T) <= MaxTree}

ScraperOutcomes ==
    {o \in [mk : MkdirOutcomes, tr : TransformOutcomes, pp : PrettyPrintOutcomes] :
        /\ o.mk # "ok" => o.tr = "ok"
        /\ (o.mk # "ok" \/ o.tr # "ok") => o.pp = "ok"}

ScraperNoOutcome == [mk |-> "ok", tr |-> "ok", pp |-> "ok"]

\* the files below root_dir/<output folder>
OutputFiles(f) ==
    {p \in DOMAIN f : IsPrefix(Append(RootDir, modified_folder_name), p.dir)}

\* The transform engine is a function of its input: what it answered for a
\* file in the first run it answers in the second.
EngineAnswers(e, input) ==
    IF \E i \in 1..Len(e) : e[i].key = input
    THEN {(CHOOSE x \in Range(e) : x.key = input).value}
    ELSE TransformOutcomes

InitScraper ==
    /\ pc = "walk"
    /\ xml_filename = None
    /\ matching_xslt = None
    /\ xslt_files \in {load_xslt_files(l) : l \in XsltDirListings}
    /\ schema_path = None
    /\ \E T \in ScraperTrees : fs = [p \in T |-> InputFile(p)]
    /\ stack = <<RootDir>>
    /\ files = {}
    /\ current_path = <<>>
    /\ validation_errors = <<>>
    /\ unmatched_files = <<>>
    /\ error_log = <<>>
    /\ steps = <<>>
    /\ exception = NoException
    /\ validation_report = NoFile
    /\ unmatched_report = NoFile
    /\ run = 1
    /\ first_run_outputs = {}
    /\ engine = <<>>

ScraperWalkNextDir ==
    /\ pc = "walk"
    /\ files = {}
    /\ stack # <<>>
    /\ LET top == Head(stack)
       IN  /\ \E dirs \in Orders(Subdirs(fs, top)) : stack' = dirs \o Tail(stack)
           /\ current_path' = top
           /\ files' = IF Scraper_skips(top, modified_folder_name)
                       THEN {} ELSE Nondirs(fs, top)
    /\ UNCHANGED <<pc, xml_filename, matching_xslt, xslt_files, schema_path, fs,
                   validation_errors, unmatched_files, error_log, steps, exception,
                   validation_report, unmatched_report, run, first_run_outputs, engine>>

ScraperVisitFile ==
    /\ pc = "walk"
    /\ \E file \in files :
        LET matching == Scraper_find_matching_xslt(file, xslt_files)
            input == Path(current_path, file)
        IN
        \E o \in IF Transforms(file, matching)
                 THEN {x \in ScraperOutcomes : x.tr \in EngineAnswers(engine, input)}
                 ELSE {ScraperNoOutcome} :
          \E r \in {Scraper_visit_file([fs |-> fs, validation_errors |-> validation_errors,
                                        error_log |-> error_log, steps |-> steps,
                                        exception |-> exception],
                                       current_path, file, matching, o.mk, o.tr, o.pp)} :
              /\ files' = files \ {file}
              /\ fs' = r.fs
              /\ error_log' = r.error_log
              /\ steps' = r.steps
              /\ exception' = r.exception
              /\ pc' = IF r.exception # NoException THEN "crashed" ELSE "walk"
              /\ engine' = IF Transforms(file, matching) /\ o.mk = "ok"
                           THEN DictSet(engine, input, o.tr) ELSE engine
    /\ UNCHANGED <<xml_filename, matching_xslt, xslt_files, schema_path, stack,
                   current_path, validation_errors, unmatched_files, validation_report,
                   unmatched_report, run, first_run_outputs>>

ScraperTraverseReturn ==
    /\ pc = "walk"
    /\ files = {}
    /\ stack = <<>>
    /\ pc' = "done"
    /\ UNCHANGED <<xml_filename, matching_xslt, xslt_files, schema_path, fs, stack, files,
                   current_path, validation_errors, unmatched_files, error_log, steps,
                   exception, validation_report, unmatched_report, run,
                   first_run_outputs, engine>>

\* the script is started again on the tree the first run left
ScraperRunAgain ==
    /\ pc = "done"
    /\ run = 1
    /\ run' = 2
    /\ first_run_outputs' = OutputFiles(fs)
    /\ pc' = "walk"
    /\ stack' = <<RootDir>>
    /\ current_path' = <<>>
    /\ steps' = <<>>
    /\ UNCHANGED <<xml_filename, matching_xslt, xslt_files, schema_path, fs, files,
                   validation_errors, unmatched_files, error_log, exception,
                   validation_report, unmatched_report, engine>>

NextScraper ==
    \/ ScraperWalkNextDir
    \/ ScraperVisitFile
    \/ ScraperTraverseReturn
    \/ ScraperRunAgain

SpecScraper == InitScraper /\ [][NextScraper]_vars

\* ------------------------------------------------------------- properties

IsXml(name) == EndsWith(Lower(name), DotXml)

InputFiles == {p \in DOMAIN fs : fs[p].kind = "input"}

OutputOf(p) == ensure_output_path(p, RootDir, modified_folder_name)

Crashed == pc = "crashed"

WalkOver == pc \in {"write_validation_report", "write_unmatched_report", "done"}

LastStep == steps[Len(steps)]

\* the loop body has run for input file p
Visited(p) ==
    /\ modified_folder_name \notin Range(p.dir)
    /\ \/ WalkOver
       \/ pc \in {"walk", "crashed"} /\ p.dir = current_path /\ p.name \notin files

Occurrences(seq, x) == Cardinality({i \in 1..Len(seq) : seq[i] = x})

\* the matcher as the specification words it: the first stylesheet whose
\* upper-cased name contains the key and has STATUS exactly when the key has
ClaimedKey(f) == Upper(Strip(RemoveDigits(Stem(f))))

ClaimedIsMatch(f, sheet) ==
    /\ Contains(ClaimedKey(f), Upper(sheet))
    /\ Contains(STATUS, ClaimedKey(f)) <=> Contains(STATUS, Upper(sheet))

ClaimedMatch(f, list) ==
    IF \E i \in 1..Len(list) : ClaimedIsMatch(f, list[i])
    THEN list[CHOOSE i \in 1..Len(list) :
                /\ ClaimedIsMatch(f, list[i])
                /\ \A j \in 1..(i - 1) : ~ClaimedIsMatch(f, list[j])]
    ELSE None

\* C1: find_matching_xslt(f, S) is the first stylesheet of S whose upper-cased
\* name contains the key of f and holds STATUS if and only if the key does,
\* and None when there is none.  (The code asks for STATUS in both.)
C1_MatchIsFirstGuardedMatch ==
    pc = "return" => matching_xslt = ClaimedMatch(xml_filename, xslt_files)

\* C2: a failed transform, by a non-zero exit or by the timeout, does not end
\* the walk: the script goes on to the next file.
C2_TransformFailureIsolated ==
    (steps # <<>> /\ LastStep.step = "transform"
        /\ LastStep.outcome \in {"nonzero", "timeout"})
    => ~Crashed

\* find_matching_xslt tabulated over the stylesheet lists and file names of
\* the runs
MatchOf ==
    [list \in {load_xslt_files(l) : l \in XsltDirListings} |->
        [name \in {p.name : p \in TreeFiles} |-> find_matching_xslt(name, list)]]

\* C4: a visited XML file without a matching stylesheet is in unmatched_files
\* with its full path, once; nothing was created, transformed, formatted or
\* validated for it and no output file was made from it; a file that matches
\* is never in unmatched_files; the report lists every unmatched path.
C4_UnmatchedRecordedAndUntouched ==
    /\ \A p \in InputFiles :
          LET unmatched == MatchOf[xslt_files][p.name] = None
          IN  /\ (Visited(p) /\ IsXml(p.name) /\ unmatched) =>
                    /\ Occurrences(unmatched_files, p) = 1
                    /\ \A i \in 1..Len(steps) : steps[i].file # p
                    /\ \A q \in DOMAIN fs : fs[q].kind = "output" => fs[q].src # p
              /\ p \in Range(unmatched_files) => unmatched
    /\ Range(unmatched_files) \subseteq InputFiles
    /\ pc = "done" =>
          \A i \in 1..Len(unmatched_files) :
             \E k \in 1..Len(unmatched_report) :
                unmatched_report[k] = [line |-> "row", filepath |-> unmatched_files[i]]

C4_Witness ==
    /\ pc = "done"
    /\ Path(Append(RootDir, "A"), Unknown_xml) \in Range(unmatched_files)
    /\ \E i \in 1..Len(steps) : steps[i].step = "transform" /\ steps[i].outcome = "ok"

FormatFailures == {"xmllint_nonzero", "xmllint_oserror", "mv_nonzero", "mv_oserror"}

\* C6: whichever way the formatting of an output file fails (the formatter
\* exits non-zero, the move fails, the formatter cannot be started), the
\* failure is logged, the script does not stop, and the transformed,
\* unformatted output file stays at its output path.
C6_FormatFailureTolerated ==
    \A i \in 1..Len(steps) :
        (steps[i].step = "format" /\ steps[i].outcome \in FormatFailures) =>
           LET p == OutputOf(steps[i].file)
           IN  /\ i = Len(steps) => ~Crashed
               /\ \E k \in 1..Len(error_log) :
                     error_log[k] = [what |-> "xmllint formatting failed", path |-> p]
               /\ p \in DOMAIN fs
               /\ fs[p] = [kind |-> "output", src |-> steps[i].file, formatted |-> FALSE]

\* C7: a failure to create the output directories of one file does not end
\* the walk: that file is skipped and the script goes on.
C7_MkdirFailureIsolated ==
    (steps # <<>> /\ LastStep.step = "mkdir" /\ LastStep.outcome = "oserror")
    => ~Crashed

Rank(step) ==
    CASE step = "mkdir" -> 0
      [] step = "transform" -> 1
      [] step = "format" -> 2
      [] step = "validate" -> 3

\* C8: per file the external steps come in the order transform, format,
\* validate, each at most once; format follows every successful transform and
\* nothing follows a failed one; validate is attempted only with a schema
\* path, and after format; the steps of one file are contiguous.
C8_StepsInOrder ==
    /\ \A i, j \in 1..Len(steps) :
          (i < j /\ steps[i].file = steps[j].file) =>
             /\ Rank(steps[i].step) < Rank(steps[j].step)
             /\ steps[i + 1].file = steps[i].file
    /\ \A j \in 1..Len(steps) :
          /\ steps[j].step \in {"format", "validate"} =>
                /\ j > 1
                /\ steps[j - 1].file = steps[j].file
                /\ Rank(steps[j - 1].step) = Rank(steps[j].step) - 1
                /\ steps[j - 1].outcome \in {"ok", "xmllint_nonzero", "mv_nonzero"}
          /\ steps[j].step = "validate" => schema_path # None
          /\ (steps[j].step = "transform" /\ steps[j].outcome # "ok") =>
                (j = Len(steps) \/ steps[j + 1].file # steps[j].file)
          /\ (steps[j].step = "transform" /\ steps[j].outcome = "ok") =>
                (j < Len(steps) /\ steps[j + 1].step = "format"
                   /\ steps[j + 1].file = steps[j].file)

C8_Witness ==
    /\ pc = "done"
    /\ \E i \in 1..Len(steps) :
          /\ i + 4 <= Len(steps)
          /\ steps[i].step = "transform" /\ steps[i].outcome = "ok"
          /\ steps[i + 1].step = "format"
          /\ steps[i + 2].step = "validate"
          /\ steps[i + 2].file = steps[i].file
          /\ steps[i + 4].step = "transform" /\ steps[i + 4].outcome = "nonzero"
          /\ steps[i + 4].file # steps[i].file

ReportRows(report) == SelectSeq(report, LAMBDA l : l.line = "row")

\* C9: write_validation_report_to_txt leaves the report file as it found it
\* (absent or old) when no validation error was recorded; otherwise the file
\* holds nothing of the old report and exactly one row per recorded output
\* path, in the order of recording.
C9_ReportWrittenIffErrors ==
    [][pc = "write_validation_report" =>
          IF validation_errors = <<>>
          THEN validation_report' = validation_report
          ELSE /\ validation_report' # NoFile
               /\ \A k \in 1..Len(validation_report') : validation_report'[k].line # "old"
               /\ ReportRows(validation_report') =
                     [i \in 1..Len(validation_errors) |->
                        [line |-> "row", filepath |-> validation_errors[i].key,
                         error |-> validation_errors[i].value]]
               /\ \A i, j \in 1..Len(validation_errors) :
                     i # j => validation_errors[i].key # validation_errors[j].key]_vars

C9_Witness ==
    /\ pc = "write_unmatched_report"
    /\ Len(validation_errors) = 2
    /\ Len(ReportRows(validation_report)) = 2

C3_SecondRunSameOutputs ==
    /\ \A i \in 1..Len(steps) : modified_folder_name \notin Range(steps[i].file.dir)
    /\ \A p \in DOMAIN fs :
          fs[p].kind = "output" =>
             /\ ~IsPrefix(RootDir \o <<modified_folder_name, modified_folder_name>>, p.dir)
             /\ p = Scraper_ensure_output_path(fs[p].src, RootDir, modified_folder_name)
    /\ (run = 2 /\ pc = "done") => OutputFiles(fs) = first_run_outputs

C3_Witness ==
    /\ run = 2
    /\ pc = "done"
    /\ \E p \in first_run_outputs : fs[p].kind = "output"
    /\ \E p \in DOMAIN fs : fs[p].kind = "input" /\ Len(p.dir) = 3
    /\ \E i \in 1..Len(steps) : steps[i].step = "transform" /\ steps[i].outcome = "ok"

=============================================================================
